---- MODULE Spec2Model ----
(***************************************************************************)
(* Quota-gated ad monetization engine of the synthetic-intelligence        *)
(* orchestrator: the task orchestrator (daily task limits, task queue and  *)
(* background processor), the ad gate (adMiddleware, PremiumAdManager,     *)
(* AdCampaignModel) and the CPM optimizer.                                 *)
(*                                                                         *)
(* Money is kept in integers.  A CPM handled by the ad manager is a whole  *)
(* number of currency units; the revenue of one impression, cpm / 1000,    *)
(* and the budget and revenue of a campaign are in cents.  The CPM         *)
(* optimizer works on exact rationals <<numerator, denominator>>.          *)
(***************************************************************************)
EXTENDS Integers, Sequences, FiniteSets, TLC

VARIABLES
    now,            \* wall clock of the database server, in days
    hour,           \* wall clock of the node process: hour of the day, 0..23
    weekday,        \* wall clock of the node process: day of the week, 0..6
    users,          \* table users: counters of every identity
    campaigns,      \* table ad_campaigns
    adImpressions,  \* table ad_impressions, a sequence of rows (row id = index)
    tasksTable,     \* table tasks: rows created today, per user and task type
    taskUsage,      \* table task_usage: rows created today, per user and type
    taskQueue,      \* SyntheticIntelligenceOrchestrator.taskQueue
    inflight,       \* tasks shifted off the queue and still being processed
    req,            \* the requests in flight, one per slot
    nextId,         \* number of requests started so far
    answered,       \* processTask calls answered today, per user and type
    accepted,       \* processTask calls accepted today, per user and type
    unitsSinceAd,   \* calls accepted since the user's last served ad
    overlapped,     \* the users two of whose requests were in flight together
    faultsLeft,     \* the persistence failures the run may still see
    cpmArgs,        \* the arguments the optimizer is called with
    cpmCalls,       \* the values of the last two calculateOptimalCPM calls
    historicalData, \* CPMOptimizer.historicalData, its length
    lastAnswer,     \* per user, the last accepted answer a direct caller
                    \* of processTask has taken
    reported,       \* the rows whose completion their owner has reported
    reportsMade,    \* number of completion reports so far
    strayReports,   \* those of them with an unknown or another user's token
    reportResult,   \* how the last completion report was answered
    lastReset,      \* the day resetDailyCounts last ran and its runs that day
    todayCounts,    \* per user, the increments of tasks_today and ads_today
                    \* made since the day began
    optArgs,        \* the arguments optimizeAdServing is called with
    optResult,      \* the frequency the last optimizeAdServing call returned
    rlStore,        \* the value Redis holds under the rate-limit key
    rlCallers,      \* the checkCustomRateLimit calls in flight
    rlStarted,      \* number of checkCustomRateLimit calls started
    rlAllowed       \* number of them answered allowed: true

vars == <<now, hour, weekday, users, campaigns, adImpressions, tasksTable,
          taskUsage, taskQueue, inflight, req, nextId, answered, accepted,
          unitsSinceAd, overlapped, faultsLeft, cpmArgs, cpmCalls,
          historicalData, lastAnswer, reported, reportsMade, strayReports,
          reportResult, lastReset, todayCounts, optArgs, optResult, rlStore,
          rlCallers, rlStarted, rlAllowed>>

adVars  == <<users, campaigns, adImpressions>>
orcVars == <<tasksTable, taskUsage, taskQueue, inflight>>
logVars == <<answered, accepted, unitsSinceAd, lastAnswer>>
cpmVars == <<cpmArgs, cpmCalls, historicalData>>
clkVars == <<hour, weekday>>
repVars == <<reported, reportsMade, strayReports, reportResult>>
dayVars == <<lastReset, todayCounts>>
optVars == <<optArgs, optResult>>
rlVars  == <<rlStore, rlCallers, rlStarted, rlAllowed>>

----------------------------------------------------------------------------
(* Bounds of the model *)

MaxBaseMills == 12
MaxHistory == 1
MaxTaskCalls == 3
MaxAdRequests == 3
MaxNow == 2
MaxTasksToday == 2
MaxReports == 2
MaxResetRuns == 2
MaxRlCalls == 5

----------------------------------------------------------------------------
(* Exact rational arithmetic for the optimizer's floating-point numbers *)

RECURSIVE Gcd(_, _)
Gcd(a, b) == IF b = 0 THEN a ELSE Gcd(b, a % b)

Reduce(q) ==
    IF q[1] = 0 THEN <<0, 1>>
    ELSE LET g == Gcd(q[1], q[2]) IN <<q[1] \div g, q[2] \div g>>

\* p * q, the common factors taken out before multiplying
Mul(p, q) ==
    LET g1 == Gcd(p[1], q[2])
        g2 == Gcd(q[1], p[2])
    IN Reduce(<<(p[1] \div g1) * (q[1] \div g2), (p[2] \div g2) * (q[2] \div g1)>>)

\* p <= q, cross-multiplied by the least common denominator
Leq(p, q) ==
    LET g == Gcd(p[2], q[2])
    IN p[1] * (q[2] \div g) <= q[1] * (p[2] \div g)

MaxQ(p, q) == IF Leq(p, q) THEN q ELSE p

\* Math.round(x): the nearest integer, halves rounded up (x >= 0 here)
MathRound(q) == (2 * q[1] + q[2]) \div (2 * q[2])

----------------------------------------------------------------------------
(* CPMOptimizer *)

Tiers == {"free", "basic", "premium", "enterprise"}

\* optimizationFactors.timeOfDay, keyed by the time slot
timeOfDay ==
    [s \in {"00-06", "06-12", "12-18", "18-24"} |->
        CASE s = "00-06" -> <<8, 10>>
          [] s = "06-12" -> <<12, 10>>
          [] s = "12-18" -> <<10, 10>>
          [] s = "18-24" -> <<11, 10>>]

\* optimizationFactors.dayOfWeek
dayOfWeek ==
    [d \in 0..6 |->
        CASE d = 0 -> <<9, 10>>
          [] d = 5 -> <<11, 10>>
          [] d = 6 -> <<12, 10>>
          [] OTHER -> <<10, 10>>]

\* optimizationFactors.userTier
userTierFactors ==
    [t \in Tiers |->
        CASE t = "free" -> <<10, 10>>
          [] t = "basic" -> <<12, 10>>
          [] t = "premium" -> <<15, 10>>
          [] t = "enterprise" -> <<0, 10>>]

\* optimizationFactors.geographic
geographic ==
    [c \in {"US", "GB", "EU", "ZA", "default"} |->
        CASE c = "US" -> <<13, 10>>
          [] c = "GB" -> <<12, 10>>
          [] c = "EU" -> <<11, 10>>
          [] c = "ZA" -> <<10, 10>>
          [] c = "default" -> <<8, 10>>]

\* JavaScript's  x || y  on numbers: y when x is undefined or 0
OrElse(table, key, other) ==
    IF key \in DOMAIN table /\ table[key][1] # 0 THEN table[key] ELSE other

getTimeOfDayFactor(h) ==
    LET timeSlot == IF h >= 0 /\ h < 6 THEN "00-06"
                    ELSE IF h >= 6 /\ h < 12 THEN "06-12"
                    ELSE IF h >= 12 /\ h < 18 THEN "12-18"
                    ELSE "18-24"
    IN OrElse(timeOfDay, timeSlot, <<1, 1>>)

getDayOfWeekFactor(d) == OrElse(dayOfWeek, d, <<1, 1>>)

getUserTierFactor(userTier) == OrElse(userTierFactors, userTier, <<1, 1>>)

getGeographicFactor(country) ==
    OrElse(geographic, country, geographic["default"])

\* userBehavior: the three signals, each already compared with its threshold.
\* adCompletionRate is "high" (> 0.8), "low" (< 0.3) or "mid" (also undefined).
getBehavioralFactor(userBehavior) ==
    LET f1 == IF userBehavior.adCompletionRate = "high" THEN <<12, 10>>
              ELSE IF userBehavior.adCompletionRate = "low" THEN <<8, 10>>
              ELSE <<1, 1>>
        f2 == IF userBehavior.longSession THEN Mul(f1, <<11, 10>>) ELSE f1
        f3 == IF userBehavior.highTaskCompletion THEN Mul(f2, <<115, 100>>) ELSE f2
    IN Reduce(f3)

\* The value returned, in cents (the result has 2 decimal places).  h and d are
\* what new Date() gives at the time of the call.
calculateOptimalCPM(baseCPM, context, h, d) ==
    LET o1 == Mul(baseCPM, getTimeOfDayFactor(h))
        o2 == Mul(o1, getDayOfWeekFactor(d))
        o3 == Mul(o2, getUserTierFactor(context.userTier))
        o4 == Mul(o3, getGeographicFactor(context.country))
        o5 == Mul(o4, getBehavioralFactor(context.userBehavior))
        o6 == MaxQ(o5, Mul(baseCPM, <<1, 2>>))
    IN MathRound(Mul(o6, <<100, 1>>))


----------------------------------------------------------------------------
(* Configuration tables *)

Users == {"u1", "u2"}

\* user.subscriptionTier of each identity
TierOf == [u \in Users |-> IF u = "u1" THEN "free" ELSE "enterprise"]

TaskTypes == {"text", "image", "code", "research", "analysis", "voice"}

\* the task types the requests of the model ask for
ReqTypes == {"text", "image"}

Unlimited == -1

\* SyntheticIntelligenceOrchestrator.taskLimits
taskLimits ==
    [t \in Tiers |-> [y \in TaskTypes |->
        CASE t = "free" ->
                 (CASE y = "text" -> 5 [] y = "voice" -> 0 [] OTHER -> 1)
          [] t = "basic" ->
                 (CASE y = "text" -> 50 [] y = "voice" -> 5 [] OTHER -> 10)
          [] t = "premium" ->
                 (CASE y = "text" -> 200 [] y = "voice" -> 20 [] OTHER -> 50)
          [] t = "enterprise" -> Unlimited]]

\* PremiumAdManager.adFrequency
adFrequency ==
    [t \in Tiers |->
        CASE t = "free" -> [tasksPerAd |-> 2, maxAdsPerDay |-> 10]
          [] t = "basic" -> [tasksPerAd |-> 5, maxAdsPerDay |-> 8]
          [] t = "premium" -> [tasksPerAd |-> 200, maxAdsPerDay |-> 1]
          [] t = "enterprise" -> [tasksPerAd |-> 0, maxAdsPerDay |-> 0]]

----------------------------------------------------------------------------
(* JavaScript objects are functions from property names to values *)

\* obj.key || 0
Prop(obj, key) == IF key \in DOMAIN obj THEN obj[key] ELSE 0

EmptyObject == [k \in {} |-> 0]

----------------------------------------------------------------------------
(* PremiumAdManager: the ad-frequency decision *)

\* the decision reading the keys of the row getUserStats returns
shouldServeAdRowKeys(userTier, userStats) ==
    IF userTier \notin DOMAIN adFrequency
       \/ adFrequency[userTier].tasksPerAd = 0
    THEN FALSE
    ELSE LET frequency == adFrequency[userTier]
             tasksSinceLastAd ==
                 Prop(userStats, "tasks_today") - Prop(userStats, "last_ad_task_count")
             adsToday == Prop(userStats, "ads_today")
         IN tasksSinceLastAd >= frequency.tasksPerAd
            /\ adsToday < frequency.maxAdsPerDay

shouldServeAdNoTierCheck(userTier, userStats) ==
    LET tasksSinceLastAd ==
            Prop(userStats, "tasksCount") - Prop(userStats, "lastAdTaskCount")
    IN tasksSinceLastAd >= adFrequency[userTier].tasksPerAd

shouldServeAd(userTier, userStats) ==
    IF userTier \notin DOMAIN adFrequency
       \/ adFrequency[userTier].tasksPerAd = 0
    THEN FALSE
    ELSE LET frequency == adFrequency[userTier]
             tasksSinceLastAd ==
                 Prop(userStats, "tasksCount") - Prop(userStats, "lastAdTaskCount")
             adsToday == Prop(userStats, "adsToday")
         IN tasksSinceLastAd >= frequency.tasksPerAd
            /\ adsToday < frequency.maxAdsPerDay

----------------------------------------------------------------------------
(* AdCampaignModel and the campaign selection of PremiumAdManager *)

CampaignIds == {1, 2, 3, 4}

\* end_date IS NULL
NoEndDate == -1

\* id 'fallback' of the fallback ad, which is no row of ad_campaigns
FallbackId == 0

FallbackCpm == 50

\* The catalog.  Every CPM is a multiple of 10, so that the revenue of one
\* impression, cpm / 1000, is a whole number of cents; budget and revenue are
\* in cents.
InitialCampaigns ==
    [c \in CampaignIds |->
        CASE c = 1 -> [id |-> 1, cpm |-> 20, status |-> "active",
                       target_audience |-> {"free", "premium"},
                       start_date |-> 0, end_date |-> 1, budget |-> 4,
                       revenue |-> 0, impressions |-> 0, completions |-> 0]
          [] c = 2 -> [id |-> 2, cpm |-> 20, status |-> "active",
                       target_audience |-> {"free"},
                       start_date |-> 0, end_date |-> NoEndDate, budget |-> 2,
                       revenue |-> 0, impressions |-> 0, completions |-> 0]
          [] c = 3 -> [id |-> 3, cpm |-> 30, status |-> "active",
                       target_audience |-> {"basic", "premium"},
                       start_date |-> 1, end_date |-> NoEndDate, budget |-> 6,
                       revenue |-> 0, impressions |-> 0, completions |-> 0]
          [] c = 4 -> [id |-> 4, cpm |-> 40, status |-> "paused",
                       target_audience |-> {"free", "basic", "premium"},
                       start_date |-> 0, end_date |-> NoEndDate, budget |-> 8,
                       revenue |-> 0, impressions |-> 0, completions |-> 0]]

\* ad.cpm / 1000, in cents
RevenueOf(ad) == ad.cpm \div 10

\* The rows the query of getCampaignsByAudience matches at time t, their
\* target_audience parsed into the set of tiers
getCampaignsByAudience(audienceTier, t) ==
    {campaigns[c] : c \in
        {c \in CampaignIds :
            /\ campaigns[c].status = "active"
            /\ campaigns[c].start_date <= t
            /\ (campaigns[c].end_date = NoEndDate \/ campaigns[c].end_date >= t)
            /\ audienceTier \in campaigns[c].target_audience}}

\* The orders in which the query, which has no ORDER BY, may return its rows
Orderings(S) ==
    {q \in [1..Cardinality(S) -> S] :
        \A i, j \in 1..Cardinality(S) : i # j => q[i] # q[j]}

getFallbackAd == [id |-> FallbackId, cpm |-> FallbackCpm, duration |-> 30]

\* no campaign: what a selection that gives up would return
NoAd == [id |-> FallbackId, cpm |-> 0, duration |-> 0, null |-> TRUE]

IsNull(ad) == "null" \in DOMAIN ad

AvailableNoBudget(campaign, t) ==
    /\ campaign.status = "active"
    /\ (campaign.end_date = NoEndDate \/ campaign.end_date >= t)

\* the filter of selectAd, t being new Date().  The DECIMAL columns cpm,
\* budget and revenue are taken to arrive as numbers, budget is NOT NULL.
Available(campaign, t) ==
    /\ campaign.status = "active"
    /\ campaign.revenue < campaign.budget
    /\ (campaign.end_date = NoEndDate \/ campaign.end_date >= t)

availableCampaigns(rows, t) ==
    LET Test(campaign) == Available(campaign, t) IN SelectSeq(rows, Test)

\* availableCampaigns.reduce((prev, current) => (prev.cpm > current.cpm) ? prev : current)
RECURSIVE ReduceFrom(_, _, _)
ReduceFrom(rows, i, prev) ==
    IF i > Len(rows) THEN prev
    ELSE ReduceFrom(rows, i + 1, IF prev.cpm > rows[i].cpm THEN prev ELSE rows[i])

selectAdNoFallback(rows, failed, t) ==
    IF failed THEN getFallbackAd
    ELSE IF Len(rows) = 0 THEN NoAd
    ELSE LET avail == availableCampaigns(rows, t)
         IN IF Len(avail) = 0 THEN NoAd
            ELSE ReduceFrom(avail, 2, avail[1])

\* selectAd: rows is what getCampaignsByAudience returned, failed whether the
\* query threw
selectAd(rows, failed, t) ==
    IF failed THEN getFallbackAd
    ELSE IF Len(rows) = 0 THEN getFallbackAd
    ELSE LET avail == availableCampaigns(rows, t)
         IN IF Len(avail) = 0 THEN getFallbackAd
            ELSE ReduceFrom(avail, 2, avail[1])

----------------------------------------------------------------------------
(* Requests *)

Slots == {1, 2}

Idle ==
    [pc |-> "idle", kind |-> "none", id |-> 0, user |-> "u1", tier |-> "free",
     type |-> "text", stats |-> EmptyObject, statsRead |-> FALSE,
     due |-> FALSE, eligible |-> {}, selectedAt |-> 0, ad |-> NoAd,
     tracked |-> FALSE, adRequired |-> FALSE, count |-> 0, unitsBefore |-> 0,
     during |-> 0, adFault |-> FALSE, countFailed |-> FALSE, allowed |-> FALSE,
     position |-> 0]

\* whether a persistence call fails
FailChoices == IF faultsLeft > 0 THEN BOOLEAN ELSE {FALSE}

Fault(fail) == faultsLeft' = faultsLeft - (IF fail THEN 1 ELSE 0)

Busy(u) == {s \in Slots : req[s].pc # "idle" /\ req[s].user = u}

\* the id of the direct processTask call of user u in flight (there is at
\* most one when another one enters), 0 if there is none
Earlier(u) ==
    LET calls == {x \in Busy(u) : req[x].kind = "task"}
    IN IF calls = {} THEN 0 ELSE req[CHOOSE x \in calls : TRUE].id

\* a request of user r.user enters slot s, the first idle one
Enter(s, r) ==
    /\ req[s].pc = "idle"
    /\ \A x \in Slots : x < s => req[x].pc # "idle"
    /\ req' = [req EXCEPT ![s] = [r EXCEPT !.id = nextId + 1,
                                           !.during = Earlier(r.user),
                                           !.unitsBefore = unitsSinceAd[r.user]]]
    /\ nextId' = nextId + 1
    /\ overlapped' = IF Busy(r.user) # {} THEN overlapped \cup {r.user}
                     ELSE overlapped

\* no answer is waiting to be taken by its caller
Quiet == \A s \in Slots : req[s].pc # "done"

\* processTask returns (allowed) or throws 'Daily ... task limit reached'
Respond(s, allowed, position) ==
    LET r == req[s] IN
    /\ req' = [req EXCEPT ![s] = [r EXCEPT !.pc = "done", !.allowed = allowed,
                                           !.position = position]]
    /\ answered' = [answered EXCEPT ![r.user][r.type] = @ + 1]
    /\ accepted' = [accepted EXCEPT ![r.user][r.type] = @ + (IF allowed THEN 1 ELSE 0)]
    /\ unitsSinceAd' =
          [unitsSinceAd EXCEPT ![r.user] =
              (IF r.adRequired THEN 0 ELSE @) + (IF allowed THEN 1 ELSE 0)]
    /\ UNCHANGED lastAnswer

\* serveAd returns to a direct caller
RespondAd(s, r) ==
    /\ req' = [req EXCEPT ![s] = [r EXCEPT !.pc = "done"]]
    /\ unitsSinceAd' =
          [unitsSinceAd EXCEPT ![r.user] = IF r.adRequired THEN 0 ELSE @]
    /\ UNCHANGED <<answered, accepted, lastAnswer>>

NoAnswer == [id |-> 0, during |-> 0, position |-> 0]

\* the caller takes the answer
Return(s) ==
    /\ req[s].pc = "done"
    /\ req' = [req EXCEPT ![s] = Idle]
    /\ lastAnswer' =
          IF req[s].kind = "task" /\ req[s].allowed
          THEN [lastAnswer EXCEPT ![req[s].user] =
                  [id |-> req[s].id, during |-> req[s].during,
                   position |-> req[s].position]]
          ELSE lastAnswer
    /\ UNCHANGED <<now, dayVars, repVars, optVars, rlVars, clkVars, adVars, orcVars, nextId, answered,
                   accepted, unitsSinceAd, overlapped, faultsLeft, cpmVars>>

\* orchestrator.processTask(task, user) called directly
StartTask(s) ==
    /\ Quiet
    /\ nextId < MaxTaskCalls
    /\ \E u \in Users, y \in ReqTypes :
          Enter(s, [Idle EXCEPT !.pc = "canProcessTask", !.kind = "task",
                                !.user = u, !.tier = TierOf[u], !.type = y])
    /\ UNCHANGED <<now, dayVars, repVars, optVars, rlVars, clkVars, adVars, orcVars, logVars, faultsLeft, cpmVars>>

\* orchestrator.processTask called with the task POST /generate-code builds:
\* {type: 'code_generation', agentType: 'coding', prompt, ...}
StartTaskCodeGeneration(s) ==
    /\ Quiet
    /\ nextId < MaxTaskCalls
    /\ \E u \in Users :
          Enter(s, [Idle EXCEPT !.pc = "canProcessTask", !.kind = "task",
                                !.user = u, !.tier = TierOf[u],
                                !.type = "code_generation"])
    /\ UNCHANGED <<now, dayVars, repVars, optVars, rlVars, clkVars, adVars, orcVars, logVars, faultsLeft, cpmVars>>

\* POST /api/agents/process: adMiddleware, then the route handler.  An
\* enterprise user skips the ad check.  adMiddleware reaches shouldSkipAdCheck,
\* getUserStats and logAdServe through `this`; they are taken to be the
\* functions of these names of its module.
StartHttp(s) ==
    /\ Quiet
    /\ nextId < MaxAdRequests
    /\ \E u \in Users, y \in ReqTypes :
          Enter(s, [Idle EXCEPT
                      !.pc = IF TierOf[u] = "enterprise" THEN "canProcessTask"
                             ELSE "getUserStats",
                      !.kind = "http", !.user = u, !.tier = TierOf[u],
                      !.type = y])
    /\ UNCHANGED <<now, dayVars, repVars, optVars, rlVars, clkVars, adVars, orcVars, logVars, faultsLeft, cpmVars>>

\* the userStats a direct caller of serveAd passes
CallerStats ==
    {[k \in {"tasksCount", "lastAdTaskCount", "adsToday"} |->
        CASE k = "tasksCount" -> a [] k = "lastAdTaskCount" -> b [] OTHER -> c] :
        <<a, b, c>> \in {<<0, 0, 0>>, <<5, 0, 0>>, <<5, 4, 0>>, <<5, 0, 10>>}}

\* the userId and userTier a direct caller of serveAd passes
ApiCallers == {<<"u1", "free">>, <<"u1", "basic">>, <<"u2", "enterprise">>}

\* adManager.serveAd(userId, userTier, userStats) called directly
StartServeAd(s) ==
    /\ Quiet
    /\ nextId < MaxAdRequests
    /\ \E c \in ApiCallers, st \in CallerStats :
          Enter(s, [Idle EXCEPT !.pc = "serveAd", !.kind = "api", !.user = c[1],
                                !.tier = c[2], !.stats = st])
    /\ UNCHANGED <<now, dayVars, repVars, optVars, rlVars, clkVars, adVars, orcVars, logVars, faultsLeft, cpmVars>>

\* adManager.serveAd called directly for a free user whose ad is due by the
\* counters the caller passes
StartServeAdDue(s) ==
    /\ Quiet
    /\ nextId < MaxAdRequests
    /\ \E st \in {x \in CallerStats : shouldServeAd("free", x)} :
          Enter(s, [Idle EXCEPT !.pc = "serveAd", !.kind = "api", !.user = "u1",
                                !.tier = "free", !.stats = st])
    /\ UNCHANGED <<now, dayVars, repVars, optVars, rlVars, clkVars, adVars, orcVars, logVars, faultsLeft, cpmVars>>

\* adManager.serveAd called directly for a premium user by a caller that has
\* just read the user's counters and passes them under the names serveAd
\* reads, with a task count at which the first ad is due
StartServeAdFresh(s) ==
    /\ Quiet
    /\ nextId < MaxAdRequests
    /\ Enter(s, [Idle EXCEPT
                   !.pc = "serveAd", !.kind = "api", !.user = "u1",
                   !.tier = "premium",
                   !.stats = [k \in {"tasksCount", "lastAdTaskCount", "adsToday"} |->
                                CASE k = "tasksCount" ->
                                       adFrequency["premium"].tasksPerAd
                                         + users["u1"].last_ad_task_count
                                  [] k = "lastAdTaskCount" ->
                                       users["u1"].last_ad_task_count
                                  [] OTHER -> users["u1"].ads_today]])
    /\ UNCHANGED <<now, dayVars, repVars, optVars, rlVars, clkVars, adVars, orcVars, logVars, faultsLeft, cpmVars>>

\* getUserStats of ad-middleware.js: the row as the query returns it, or {}
\* when the query throws
getUserStats(s) ==
    /\ req[s].pc = "getUserStats"
    /\ \E fail \in FailChoices :
          /\ Fault(fail)
          /\ req' = [req EXCEPT
                ![s].pc = "serveAd",
                ![s].statsRead = ~fail,
                ![s].stats =
                    IF fail THEN EmptyObject
                    ELSE [k \in {"tasks_today", "ads_today", "last_ad_task_count"}
                            |-> users[req[s].user][k]]]
    /\ UNCHANGED <<now, dayVars, repVars, optVars, rlVars, clkVars, adVars, orcVars, nextId, logVars,
                   overlapped, cpmVars>>

\* what follows serveAd: a direct caller is answered; the middleware, whose
\* userStats goes out of scope, calls next() and the route handler calls
\* processTask
AfterServeAd(s, r) ==
    IF r.kind = "api"
    THEN RespondAd(s, r)
    ELSE /\ req' = [req EXCEPT ![s] = [r EXCEPT !.pc = "canProcessTask",
                                                !.stats = EmptyObject]]
         /\ UNCHANGED logVars

\* serveAd up to the selection: shouldServeAd, then selectAd with its query
serveAd(s) ==
    /\ req[s].pc = "serveAd"
    /\ LET r == req[s] IN
       IF ~shouldServeAd(r.tier, r.stats)
       THEN /\ AfterServeAd(s, [r EXCEPT !.due = FALSE])
            /\ UNCHANGED faultsLeft
       ELSE \E fail \in FailChoices :
            \E rows \in Orderings(getCampaignsByAudience(r.tier, now)) :
               LET ad == selectAd(rows, fail, now)
                   r2 == [r EXCEPT !.due = TRUE, !.selectedAt = now,
                            !.eligible =
                               IF fail THEN {}
                               ELSE {rows[i].id : i \in
                                       {i \in 1..Len(rows) : Available(rows[i], now)}},
                            !.ad = ad]
               IN /\ Fault(fail)
                  /\ IF IsNull(ad)
                     THEN AfterServeAd(s, r2)
                     ELSE /\ req' = [req EXCEPT ![s] = [r2 EXCEPT !.pc = "recordImpression"]]
                          /\ UNCHANGED logVars
    /\ UNCHANGED <<now, dayVars, repVars, optVars, rlVars, clkVars, adVars, orcVars, nextId, overlapped, cpmVars>>

\* the tracking_id of a row whose INSERT names no tracking_id: NULL, which
\* equals no tracking id a report carries
NoTrackingId == 0

\* AdCampaignModel.recordImpression, first statement: INSERT INTO ad_impressions
\* (campaign_id, user_id, revenue, impression_date, created_at).
\* campaign_id is an INT referencing ad_campaigns(id): the insert of the
\* fallback ad's id 'fallback' fails.  trackImpression catches the error and
\* makes up a tracking id.
recordImpression(s) ==
    /\ req[s].pc = "recordImpression"
    /\ LET r == req[s] IN
       \E fail \in FailChoices :
          /\ Fault(fail)
          /\ IF fail \/ r.ad.id = FallbackId
             THEN /\ req' = [req EXCEPT ![s].pc = "updateUserAdStats",
                                        ![s].adFault = TRUE]
                  /\ UNCHANGED adImpressions
             ELSE /\ adImpressions' = Append(adImpressions,
                        [campaign_id |-> r.ad.id, user_id |-> r.user,
                         revenue |-> RevenueOf(r.ad), by |-> "recordImpression",
                         request |-> r.id, tracking_id |-> NoTrackingId,
                         completed |-> FALSE])
                  /\ req' = [req EXCEPT ![s].pc = "creditCampaign",
                                        ![s].tracked = TRUE]
    /\ UNCHANGED <<now, dayVars, repVars, optVars, rlVars, clkVars, users, campaigns, orcVars, nextId, logVars,
                   overlapped, cpmVars>>

\* the second statement as a read of the campaign at the selection followed by
\* a write of the incremented values
creditCampaignFromSnapshot(s) ==
    /\ req[s].pc = "creditCampaign"
    /\ LET r == req[s] IN
       \E fail \in FailChoices :
          /\ Fault(fail)
          /\ campaigns' =
                IF fail THEN campaigns
                ELSE [campaigns EXCEPT
                        ![r.ad.id].impressions = r.ad.impressions + 1,
                        ![r.ad.id].revenue = r.ad.revenue + RevenueOf(r.ad)]
          /\ req' = [req EXCEPT ![s].pc = "updateUserAdStats",
                                ![s].adFault = fail,
                                ![s].tracked = ~fail]
    /\ UNCHANGED <<now, dayVars, repVars, optVars, rlVars, clkVars, users, adImpressions, orcVars, nextId,
                   logVars, overlapped, cpmVars>>

\* AdCampaignModel.recordImpression, second statement: UPDATE ad_campaigns
\* SET impressions = impressions + 1, revenue = revenue + ?, one statement of
\* the database
creditCampaign(s) ==
    /\ req[s].pc = "creditCampaign"
    /\ LET r == req[s] IN
       \E fail \in FailChoices :
          /\ Fault(fail)
          /\ campaigns' =
                IF fail THEN campaigns
                ELSE [campaigns EXCEPT
                        ![r.ad.id].impressions = @ + 1,
                        ![r.ad.id].revenue = @ + RevenueOf(r.ad)]
          /\ req' = [req EXCEPT ![s].pc = "updateUserAdStats",
                                ![s].adFault = fail,
                                ![s].tracked = ~fail]
    /\ UNCHANGED <<now, dayVars, repVars, optVars, rlVars, clkVars, users, adImpressions, orcVars, nextId,
                   logVars, overlapped, cpmVars>>

\* updateUserAdStats without its try/catch: the error reaches the catch of
\* serveAd, which answers adRequired: false with the error
updateUserAdStatsThrows(s) ==
    /\ req[s].pc = "updateUserAdStats"
    /\ LET r == req[s] IN
       \E fail \in FailChoices :
          /\ Fault(fail)
          /\ users' =
                IF fail THEN users
                ELSE [users EXCEPT
                        ![r.user].ads_today = @ + 1,
                        ![r.user].total_ads = @ + 1,
                        ![r.user].last_ad_task_count = Prop(r.stats, "tasksCount"),
                        ![r.user].updated_at = now]
          /\ todayCounts' =
                IF fail THEN todayCounts
                ELSE [todayCounts EXCEPT ![r.user].ads = @ + 1]
          /\ IF r.kind = "api"
             THEN RespondAd(s, [r EXCEPT !.adRequired = ~fail,
                                         !.adFault = @ \/ fail])
             ELSE /\ req' = [req EXCEPT ![s].pc = IF fail THEN "canProcessTask"
                                                  ELSE "logAdServe",
                                        ![s].adRequired = ~fail,
                                        ![s].adFault = @ \/ fail]
                  /\ UNCHANGED logVars
    /\ UNCHANGED <<now, lastReset, repVars, optVars, rlVars, clkVars, campaigns, adImpressions, orcVars, nextId,
                   overlapped, cpmVars>>

\* PremiumAdManager.updateUserAdStats(userId, userStats.tasksCount || 0), whose
\* error is caught and logged, after which serveAd returns adRequired: true
updateUserAdStats(s) ==
    /\ req[s].pc = "updateUserAdStats"
    /\ LET r == req[s] IN
       \E fail \in FailChoices :
          /\ Fault(fail)
          /\ users' =
                IF fail THEN users
                ELSE [users EXCEPT
                        ![r.user].ads_today = @ + 1,
                        ![r.user].total_ads = @ + 1,
                        ![r.user].last_ad_task_count = Prop(r.stats, "tasksCount"),
                        ![r.user].updated_at = now]
          /\ todayCounts' =
                IF fail THEN todayCounts
                ELSE [todayCounts EXCEPT ![r.user].ads = @ + 1]
          /\ IF r.kind = "api"
             THEN RespondAd(s, [r EXCEPT !.adRequired = TRUE,
                                         !.adFault = @ \/ fail])
             ELSE /\ req' = [req EXCEPT ![s].pc = "logAdServe",
                                        ![s].adRequired = TRUE,
                                        ![s].adFault = @ \/ fail]
                  /\ UNCHANGED logVars
    /\ UNCHANGED <<now, lastReset, repVars, optVars, rlVars, clkVars, campaigns, adImpressions, orcVars, nextId,
                   overlapped, cpmVars>>

\* logAdServe of ad-middleware.js, first statement: INSERT INTO ad_impressions
\* with adResult.campaignId; an error skips the second statement
logAdServe(s) ==
    /\ req[s].pc = "logAdServe"
    /\ LET r == req[s] IN
       \E fail \in FailChoices :
          /\ Fault(fail)
          /\ IF fail \/ r.ad.id = FallbackId
             THEN /\ req' = [req EXCEPT ![s].pc = "canProcessTask",
                                        ![s].adFault = TRUE]
                  /\ UNCHANGED adImpressions
             ELSE /\ adImpressions' = Append(adImpressions,
                        [campaign_id |-> r.ad.id, user_id |-> r.user,
                         revenue |-> RevenueOf(r.ad), by |-> "logAdServe",
                         request |-> r.id, tracking_id |-> NoTrackingId,
                         completed |-> FALSE])
                  /\ req' = [req EXCEPT ![s].pc = "logAdServeUpdate"]
    /\ UNCHANGED <<now, dayVars, repVars, optVars, rlVars, clkVars, users, campaigns, orcVars, nextId, logVars,
                   overlapped, cpmVars>>

\* logAdServe, second statement: UPDATE users
logAdServeUpdate(s) ==
    /\ req[s].pc = "logAdServeUpdate"
    /\ LET r == req[s] IN
       \E fail \in FailChoices :
          /\ Fault(fail)
          /\ users' =
                IF fail THEN users
                ELSE [users EXCEPT
                        ![r.user].ads_today = @ + 1,
                        ![r.user].total_ads = @ + 1,
                        ![r.user].last_ad_task_count = users[r.user].tasks_today,
                        ![r.user].updated_at = now]
          /\ todayCounts' =
                IF fail THEN todayCounts
                ELSE [todayCounts EXCEPT ![r.user].ads = @ + 1]
          /\ req' = [req EXCEPT ![s].pc = "canProcessTask",
                                ![s].adFault = @ \/ fail]
    /\ UNCHANGED <<now, lastReset, repVars, optVars, rlVars, clkVars, campaigns, adImpressions, orcVars, nextId,
                   logVars, overlapped, cpmVars>>

----------------------------------------------------------------------------
(* SyntheticIntelligenceOrchestrator *)

\* getTodayTaskCount: COUNT(*) of today's rows of tasks, 0 when the query throws
getTodayTaskCount(userId, taskType, fail) ==
    IF fail THEN 0 ELSE tasksTable[userId][taskType]

\* limits[taskType] is a number: the tier's limits have the key
HasLimit(userTier, taskType) == taskType \in DOMAIN taskLimits[userTier]

\* canProcessTask, from the count it read; undefined === -1 and
\* todayTasks < undefined are false
Allowed(userTier, taskType, todayTasks) ==
    LET limits == taskLimits[userTier]
    IN /\ HasLimit(userTier, taskType)
       /\ limits[taskType] = Unlimited \/ todayTasks < limits[taskType]

\* processTask up to the query of canProcessTask (validateTask passes: the
\* requests of the model are well formed)
canProcessTask(s) ==
    /\ req[s].pc = "canProcessTask"
    /\ LET r == req[s] IN
       IF HasLimit(r.tier, r.type) /\ taskLimits[r.tier][r.type] = Unlimited
       THEN /\ req' = [req EXCEPT ![s].pc = "enqueue"]
            /\ UNCHANGED faultsLeft
       ELSE \E fail \in FailChoices :
               /\ Fault(fail)
               /\ req' = [req EXCEPT
                     ![s].pc = "enqueue",
                     ![s].countFailed = fail,
                     ![s].count = getTodayTaskCount(r.user, r.type, fail)]
    /\ UNCHANGED <<now, dayVars, repVars, optVars, rlVars, clkVars, adVars, orcVars, nextId, logVars,
                   overlapped, cpmVars>>

\* processTask after canProcessTask: throw 'Daily ... task limit reached', or
\* push the task on the queue
enqueue(s) ==
    /\ req[s].pc = "enqueue"
    /\ LET r == req[s] IN
       IF Allowed(r.tier, r.type, r.count)
       THEN /\ taskQueue' = Append(taskQueue,
                  [id |-> r.id, user |-> r.user, type |-> r.type])
            /\ req' = [req EXCEPT ![s].pc = "recordTaskUsage"]
            /\ UNCHANGED logVars
       ELSE /\ Respond(s, FALSE, 0)
            /\ UNCHANGED taskQueue
    /\ UNCHANGED <<now, dayVars, repVars, optVars, rlVars, clkVars, adVars, tasksTable, taskUsage, inflight,
                   nextId, overlapped, faultsLeft, cpmVars>>

\* recordTaskUsage, then the answer {status: 'queued', position: taskQueue.length}
recordTaskUsage(s) ==
    /\ req[s].pc = "recordTaskUsage"
    /\ LET r == req[s] IN
       \E fail \in FailChoices :
          /\ Fault(fail)
          /\ taskUsage' =
                IF fail THEN taskUsage
                ELSE [taskUsage EXCEPT ![r.user][r.type] = @ + 1]
          /\ Respond(s, TRUE, Len(taskQueue))
    /\ UNCHANGED <<now, dayVars, repVars, optVars, rlVars, clkVars, adVars, tasksTable, taskQueue, inflight,
                   nextId, overlapped, cpmVars>>

\* the timer of startTaskProcessor: shift one task off the queue
startTaskProcessor ==
    /\ Quiet
    /\ Len(taskQueue) > 0
    /\ inflight' = inflight \cup {Head(taskQueue)}
    /\ taskQueue' = Tail(taskQueue)
    /\ UNCHANGED <<now, dayVars, repVars, optVars, rlVars, clkVars, adVars, tasksTable, taskUsage, req, nextId,
                   logVars, overlapped, faultsLeft, cpmVars>>

\* processQueuedTask: the agent runs (or throws), then storeTaskResult inserts
\* the row of tasks; an error of the insert is logged and dropped
processQueuedTask ==
    /\ Quiet
    /\ \E t \in inflight :
          \E fail \in FailChoices :
             /\ Fault(fail)
             /\ tasksTable' =
                   IF fail THEN tasksTable
                   ELSE [tasksTable EXCEPT ![t.user][t.type] = @ + 1]
             /\ inflight' = inflight \ {t}
    /\ UNCHANGED <<now, dayVars, repVars, optVars, rlVars, clkVars, adVars, taskUsage, taskQueue, req, nextId,
                   logVars, overlapped, cpmVars>>

----------------------------------------------------------------------------
(* Completion reports *)

\* the tracking ids a client may report: the ids of the rows (serveAd returns
\* the insertId as trackingId) and one id of no row
Tokens == 1..(Len(adImpressions) + 1)

\* bookkeeping of a report of token by user u
Report(token, u) ==
    LET own == token \in 1..Len(adImpressions) /\ adImpressions[token].user_id = u
    IN /\ reported' = IF own THEN reported \cup {token} ELSE reported
       /\ strayReports' = strayReports + (IF own THEN 0 ELSE 1)
       /\ reportsMade' = reportsMade + 1

\* POST /api/ads/complete, trackAdCompletion of ad-middleware.js: UPDATE
\* ad_impressions SET completed = 1 WHERE tracking_id = ? AND user_id = ?, then
\* {success: true} whatever the number of rows matched; 500 when the
\* statement throws
trackAdCompletion ==
    /\ Quiet
    /\ reportsMade < MaxReports
    /\ \E u \in Users, trackingId \in Tokens :
       \E fail \in FailChoices :
          LET hit == {i \in 1..Len(adImpressions) :
                        /\ adImpressions[i].tracking_id = trackingId
                        /\ adImpressions[i].user_id = u}
          IN /\ Fault(fail)
             /\ adImpressions' =
                   IF fail \/ hit = {} THEN adImpressions
                   ELSE [i \in 1..Len(adImpressions) |->
                           IF i \in hit
                           THEN [adImpressions[i] EXCEPT !.completed = TRUE]
                           ELSE adImpressions[i]]
             /\ reportResult' = IF fail THEN "negative" ELSE "positive"
             /\ Report(trackingId, u)
    /\ UNCHANGED <<now, dayVars, optVars, rlVars, clkVars, users, campaigns, orcVars, req, nextId, logVars,
                   overlapped, cpmVars>>

\* AdCampaignModel.recordCompletion(impressionId), on behalf of user u: UPDATE
\* ad_impressions SET completed = 1 WHERE id = ?, then UPDATE ad_campaigns SET
\* completions = completions + 1 for the campaign of the row, then
\* return affectedRows > 0 of the first statement
recordCompletion ==
    /\ Quiet
    /\ reportsMade < MaxReports
    /\ \E u \in Users, impressionId \in Tokens :
       \E fail1 \in FailChoices :
       \E fail2 \in (IF fail1 THEN {FALSE} ELSE FailChoices) :
          LET known == impressionId \in 1..Len(adImpressions)
          IN /\ Fault(fail1 \/ fail2)
             /\ adImpressions' =
                   IF known /\ ~fail1
                   THEN [adImpressions EXCEPT ![impressionId].completed = TRUE]
                   ELSE adImpressions
             /\ campaigns' =
                   IF known /\ ~fail1 /\ ~fail2
                   THEN [campaigns EXCEPT
                           ![adImpressions[impressionId].campaign_id].completions = @ + 1]
                   ELSE campaigns
             /\ reportResult' = IF known /\ ~fail1 /\ ~fail2 THEN "positive"
                                ELSE "negative"
             /\ Report(impressionId, u)
    /\ UNCHANGED <<now, dayVars, optVars, rlVars, clkVars, users, orcVars, req, nextId, logVars,
                   overlapped, cpmVars>>

----------------------------------------------------------------------------
(* Operations of the collaborators *)

\* UserModel.incrementTaskCount
incrementTaskCount ==
    /\ Quiet
    /\ \E u \in Users :
          /\ users[u].tasks_today < MaxTasksToday
          /\ users' = [users EXCEPT ![u].tasks_today = @ + 1,
                                    ![u].updated_at = now]
          /\ todayCounts' = [todayCounts EXCEPT ![u].tasks = @ + 1]
    /\ UNCHANGED <<now, lastReset, repVars, optVars, rlVars, clkVars, campaigns, adImpressions, orcVars, req,
                   nextId, logVars, overlapped, faultsLeft, cpmVars>>

\* the task types a row of tasks or task_usage may carry: those of the limits
\* and the type of the tasks POST /generate-code builds
StoredTypes == TaskTypes \cup {"code_generation"}

ZeroCounts == [u \in Users |-> [y \in StoredTypes |-> 0]]

NoCounts == [tasks |-> 0, ads |-> 0]

NeverReset == [day |-> -1, runs |-> 0]

\* bookkeeping of a run of the daily reset
ResetRan ==
    /\ lastReset.day = now => lastReset.runs < MaxResetRuns
    /\ lastReset' = [day |-> now,
                     runs |-> IF lastReset.day = now THEN lastReset.runs + 1 ELSE 1]

\* the reset without its WHERE clause
resetDailyCountsAllRows ==
    /\ Quiet
    /\ ResetRan
    /\ users' = [u \in Users |->
                   [users[u] EXCEPT
                      !.tasks_today = 0, !.ads_today = 0,
                      !.updated_at =
                         IF users[u].tasks_today # 0 \/ users[u].ads_today # 0
                         THEN now ELSE @]]
    /\ UNCHANGED <<now, todayCounts, repVars, optVars, rlVars, clkVars, campaigns, adImpressions,
                   orcVars, req, nextId, logVars, overlapped, faultsLeft, cpmVars>>

\* UserModel.resetDailyCounts (POST /maintenance/reset-daily-counts): UPDATE
\* users SET tasks_today = 0, ads_today = 0 WHERE DATE(updated_at) < CURDATE().
\* updated_at is ON UPDATE CURRENT_TIMESTAMP: a row the statement changes gets
\* the current time, a row it leaves as it was keeps its updated_at.
resetDailyCounts ==
    /\ Quiet
    /\ ResetRan
    /\ users' = [u \in Users |->
                   IF users[u].updated_at < now
                   THEN [users[u] EXCEPT
                           !.tasks_today = 0, !.ads_today = 0,
                           !.updated_at =
                              IF users[u].tasks_today # 0 \/ users[u].ads_today # 0
                              THEN now ELSE @]
                   ELSE users[u]]
    /\ UNCHANGED <<now, todayCounts, repVars, optVars, rlVars, clkVars, campaigns, adImpressions,
                   orcVars, req, nextId, logVars, overlapped, faultsLeft, cpmVars>>

\* A day passes on the database server, at a moment when no request is in
\* flight and the queue is empty: no row of tasks or task_usage is of today.
AdvanceDay ==
    /\ Quiet
    /\ now < MaxNow
    /\ \A s \in Slots : req[s].pc = "idle"
    /\ taskQueue = <<>> /\ inflight = {}
    /\ now' = now + 1
    /\ tasksTable' = ZeroCounts
    /\ taskUsage' = ZeroCounts
    /\ answered' = ZeroCounts
    /\ accepted' = ZeroCounts
    /\ unitsSinceAd' = [u \in Users |-> 0]
    /\ lastAnswer' = [u \in Users |-> NoAnswer]
    /\ todayCounts' = [u \in Users |-> NoCounts]
    /\ UNCHANGED <<clkVars, repVars, optVars, rlVars, lastReset, adVars, taskQueue, inflight, req,
                   nextId, overlapped, faultsLeft, cpmVars>>

----------------------------------------------------------------------------
(* Calls of the CPM optimizer *)

\* base CPMs, in thousandths of a currency unit
BaseCPMs == {<<b, 1000>> : b \in 0..MaxBaseMills}

Contexts ==
    [userTier : {"free", "premium", "enterprise"},
     country : {"US", "BR"},
     userBehavior : [adCompletionRate : {"high", "mid", "low"},
                     longSession : BOOLEAN,
                     highTaskCompletion : BOOLEAN]]

DefaultArgs ==
    [baseCPM |-> <<0, 1000>>,
     context |-> [userTier |-> "free", country |-> "US",
                  userBehavior |-> [adCompletionRate |-> "mid",
                                    longSession |-> FALSE,
                                    highTaskCompletion |-> FALSE]]]

\* optimizer.calculateOptimalCPM(baseCPM, context) at the current wall clock
Calculate ==
    /\ LET value == calculateOptimalCPM(cpmArgs.baseCPM, cpmArgs.context,
                                         hour, weekday)
       IN cpmCalls' = IF cpmCalls = <<>> THEN <<value>>
                      ELSE <<cpmCalls[Len(cpmCalls)], value>>
    /\ UNCHANGED <<now, dayVars, repVars, optVars, rlVars, clkVars, adVars, orcVars, req, nextId, logVars,
                   overlapped, faultsLeft, cpmArgs, historicalData>>

\* the wall clock reaches the next time slot
TickClock ==
    /\ hour' = IF hour < 6 THEN 6 ELSE IF hour < 12 THEN 12
               ELSE IF hour < 18 THEN 18 ELSE 0
    /\ weekday' = IF hour >= 18 THEN (weekday + 1) % 7 ELSE weekday
    /\ UNCHANGED <<now, dayVars, repVars, optVars, rlVars, adVars, orcVars, req, nextId, logVars, overlapped,
                   faultsLeft, cpmVars>>

\* CPMOptimizer.recordAdPerformance
recordAdPerformance ==
    /\ historicalData < MaxHistory
    /\ historicalData' = historicalData + 1
    /\ UNCHANGED <<now, dayVars, repVars, optVars, rlVars, clkVars, adVars, orcVars, req, nextId, logVars,
                   overlapped, faultsLeft, cpmArgs, cpmCalls>>

----------------------------------------------------------------------------
(* PremiumAdManager.optimizeAdServing *)

\* avgSessionDuration, in seconds, around the threshold 300
SessionDurations == {0, 300, 301, 600, 3600}

\* adCompletionRate, in hundredths, around the threshold 0.8
CompletionRates == {0, 50, 80, 81, 100}

DefaultBehavior ==
    [userTier |-> "free", avgSessionDuration |-> 0, adCompletionRate |-> 0]

NoFrequency == [tasksPerAd |-> -1, maxAdsPerDay |-> -1]

Max(a, b) == IF a >= b THEN a ELSE b

Min(a, b) == IF a <= b THEN a ELSE b

\* optimizeAdServing(userId, userTier, userBehavior): a copy of the tier's
\* frequency, adjusted
optimizeAdServing(userTier, userBehavior) ==
    LET baseFrequency == adFrequency[userTier]
    IN [tasksPerAd |->
           IF userBehavior.avgSessionDuration > 300
           THEN Max(1, baseFrequency.tasksPerAd - 1)
           ELSE baseFrequency.tasksPerAd,
        maxAdsPerDay |->
           IF userBehavior.adCompletionRate > 80
           THEN Min(15, baseFrequency.maxAdsPerDay + 2)
           ELSE baseFrequency.maxAdsPerDay]

\* a call of optimizeAdServing
Optimize ==
    /\ optResult' = optimizeAdServing(optArgs.userTier, optArgs)
    /\ UNCHANGED <<now, dayVars, repVars, optArgs, rlVars, clkVars, adVars,
                   orcVars, req, nextId, logVars, overlapped, faultsLeft, cpmVars>>

----------------------------------------------------------------------------
(* RateLimiter.checkCustomRateLimit, one key, within one window *)

RlCallers == {1, 2, 3}

\* the maxRequests the callers pass
RlMaxRequests == 2

\* redis.get answers null: the key is not set
NoKey == -1

RlIdle == [pc |-> "idle", current |-> NoKey]

\* the call starts: current = await this.redis.get(key)
rlGet(c) ==
    /\ rlCallers[c].pc = "idle"
    /\ rlStarted < MaxRlCalls
    /\ rlStarted' = rlStarted + 1
    /\ rlCallers' = [rlCallers EXCEPT ![c] = [pc |-> "decide", current |-> rlStore]]
    /\ UNCHANGED <<now, dayVars, repVars, optVars, rlStore, rlAllowed, clkVars,
                   adVars, orcVars, req, nextId, logVars, overlapped, faultsLeft,
                   cpmVars>>

\* the rest of the call: SETEX key 1 when get answered null, a denial when
\* the count read is at maxRequests, INCR key otherwise
rlDecide(c) ==
    /\ rlCallers[c].pc = "decide"
    /\ LET current == rlCallers[c].current IN
       /\ rlStore' = IF current = NoKey THEN 1
                     ELSE IF current >= RlMaxRequests THEN rlStore
                     ELSE IF rlStore = NoKey THEN 1 ELSE rlStore + 1
       /\ rlAllowed' = rlAllowed +
             (IF current = NoKey \/ current < RlMaxRequests THEN 1 ELSE 0)
    /\ rlCallers' = [rlCallers EXCEPT ![c] = RlIdle]
    /\ UNCHANGED <<now, dayVars, repVars, optVars, rlStarted, clkVars, adVars,
                   orcVars, req, nextId, logVars, overlapped, faultsLeft, cpmVars>>

----------------------------------------------------------------------------
(* Specifications *)

InitBase ==
    /\ now = 0
    /\ hour = 0
    /\ weekday = 0
    /\ users = [u \in Users |->
                  [tasks_today |-> 0, ads_today |-> 0, total_ads |-> 0,
                   last_ad_task_count |-> 0, updated_at |-> 0]]
    /\ campaigns = InitialCampaigns
    /\ adImpressions = <<>>
    /\ tasksTable = ZeroCounts
    /\ taskUsage = ZeroCounts
    /\ taskQueue = <<>>
    /\ inflight = {}
    /\ req = [s \in Slots |-> Idle]
    /\ nextId = 0
    /\ answered = ZeroCounts
    /\ accepted = ZeroCounts
    /\ unitsSinceAd = [u \in Users |-> 0]
    /\ lastAnswer = [u \in Users |-> NoAnswer]
    /\ overlapped = {}
    /\ cpmCalls = <<>>
    /\ historicalData = 0
    /\ reported = {}
    /\ reportsMade = 0
    /\ strayReports = 0
    /\ reportResult = "none"
    /\ lastReset = NeverReset
    /\ todayCounts = [u \in Users |-> NoCounts]
    /\ optResult = NoFrequency
    /\ rlStore = NoKey
    /\ rlCallers = [c \in RlCallers |-> RlIdle]
    /\ rlStarted = 0
    /\ rlAllowed = 0

\* no persistence call fails
Init ==
    /\ InitBase
    /\ cpmArgs = DefaultArgs
    /\ optArgs = DefaultBehavior
    /\ faultsLeft = 0

\* one persistence call may fail
InitFaults ==
    /\ InitBase
    /\ cpmArgs = DefaultArgs
    /\ optArgs = DefaultBehavior
    /\ faultsLeft = 1

\* the orchestrator called directly, with its background processor
NextQuota ==
    \/ \E s \in Slots : StartTask(s)
    \/ \E s \in Slots : canProcessTask(s)
    \/ \E s \in Slots : enqueue(s)
    \/ \E s \in Slots : recordTaskUsage(s)
    \/ \E s \in Slots : Return(s)
    \/ startTaskProcessor
    \/ processQueuedTask

SpecQuota == Init /\ [][NextQuota]_vars

\* the same with the calls of POST /generate-code
NextPolicy ==
    \/ \E s \in Slots : StartTaskCodeGeneration(s)
    \/ NextQuota

SpecPolicy == Init /\ [][NextPolicy]_vars

\* the same, where one persistence call may fail
SpecQuotaFaults == InitFaults /\ [][NextQuota]_vars

\* the HTTP route /api/agents/process behind the ad middleware
NextGate ==
    \/ \E s \in Slots : StartHttp(s)
    \/ \E s \in Slots : getUserStats(s)
    \/ \E s \in Slots : serveAd(s)
    \/ \E s \in Slots : canProcessTask(s)
    \/ \E s \in Slots : enqueue(s)
    \/ \E s \in Slots : recordTaskUsage(s)
    \/ \E s \in Slots : Return(s)
    \/ startTaskProcessor
    \/ processQueuedTask
    \/ incrementTaskCount

SpecGate == Init /\ [][NextGate]_vars

\* the ad manager called directly, while days pass
NextServe ==
    \/ \E s \in Slots : StartServeAd(s)
    \/ \E s \in Slots : serveAd(s)
    \/ \E s \in Slots : recordImpression(s)
    \/ \E s \in Slots : creditCampaign(s)
    \/ \E s \in Slots : updateUserAdStats(s)
    \/ \E s \in Slots : Return(s)
    \/ AdvanceDay

SpecServe == InitFaults /\ [][NextServe]_vars

\* the ad manager called directly and the completion reports of its ads
NextComplete ==
    \/ \E s \in Slots : StartServeAd(s)
    \/ \E s \in Slots : serveAd(s)
    \/ \E s \in Slots : recordImpression(s)
    \/ \E s \in Slots : creditCampaign(s)
    \/ \E s \in Slots : updateUserAdStats(s)
    \/ \E s \in Slots : Return(s)
    \/ trackAdCompletion
    \/ recordCompletion

SpecComplete == Init /\ [][NextComplete]_vars

\* the ad manager called directly, the task counter of the users and the
\* daily reset, while days pass
NextReset ==
    \/ \E s \in Slots : StartServeAdDue(s)
    \/ \E s \in Slots : serveAd(s)
    \/ \E s \in Slots : recordImpression(s)
    \/ \E s \in Slots : creditCampaign(s)
    \/ \E s \in Slots : updateUserAdStats(s)
    \/ \E s \in Slots : Return(s)
    \/ incrementTaskCount
    \/ AdvanceDay
    \/ resetDailyCounts

SpecReset == Init /\ [][NextReset]_vars

\* concurrent direct calls of the ad manager for one premium user, each with
\* the counters read when it started
NextCap ==
    \/ \E s \in Slots : StartServeAdFresh(s)
    \/ \E s \in Slots : serveAd(s)
    \/ \E s \in Slots : recordImpression(s)
    \/ \E s \in Slots : creditCampaign(s)
    \/ \E s \in Slots : updateUserAdStats(s)
    \/ \E s \in Slots : Return(s)
    \/ AdvanceDay

SpecCap == Init /\ [][NextCap]_vars

\* optimizeAdServing called with arguments drawn once
InitOptimize ==
    /\ InitBase
    /\ cpmArgs = DefaultArgs
    /\ optArgs \in [userTier : Tiers, avgSessionDuration : SessionDurations,
                     adCompletionRate : CompletionRates]
    /\ faultsLeft = 0

NextOptimize == Optimize

SpecOptimize == InitOptimize /\ [][NextOptimize]_vars

\* concurrent callers of checkCustomRateLimit with one key
NextRateLimit ==
    \/ \E c \in RlCallers : rlGet(c)
    \/ \E c \in RlCallers : rlDecide(c)

SpecRateLimit == Init /\ [][NextRateLimit]_vars

\* the optimizer, its arguments drawn once and its clock running
InitCPM ==
    /\ InitBase
    /\ cpmArgs \in [baseCPM : BaseCPMs, context : Contexts]
    /\ optArgs = DefaultBehavior
    /\ faultsLeft = 0

NextCPM ==
    \/ Calculate
    \/ TickClock
    \/ recordAdPerformance

SpecCPM == InitCPM /\ [][NextCPM]_vars

----------------------------------------------------------------------------
(* The daily task limits *)

\* C1: for every identity and task type whose tier limit L is finite, however
\* the processTask calls of the identity interleave within one day, at most L
\* of them are admitted (pushed on the queue and answered 'queued').
C1_AtMostLimitAdmitted ==
    \A u \in Users, y \in ReqTypes :
        LET L == taskLimits[TierOf[u]][y]
            pushed == {s \in Slots : /\ req[s].pc = "recordTaskUsage"
                                     /\ req[s].user = u
                                     /\ req[s].type = y}
        IN L # Unlimited => accepted[u][y] + Cardinality(pushed) <= L

\* C2: when the calls of an identity for a task type of finite limit L never
\* overlap, the calls 1..L of the day are each accepted and every later call
\* is denied, whenever the background processor runs between them.
C2_SequentialFirstLOnly ==
    \A u \in Users, y \in ReqTypes :
        LET L == taskLimits[TierOf[u]][y]
        IN (L # Unlimited /\ u \notin overlapped) =>
              accepted[u][y] = IF answered[u][y] < L THEN answered[u][y] ELSE L

----------------------------------------------------------------------------
(* The ad gate *)

\* the ad-frequency policy on the counters of the identity record
PolicyDue(userTier, row) ==
    /\ adFrequency[userTier].tasksPerAd > 0
    /\ row.tasks_today - row.last_ad_task_count >= adFrequency[userTier].tasksPerAd
    /\ row.ads_today < adFrequency[userTier].maxAdsPerDay

\* the gate, having read the identity record, takes its decision for the
\* request of slot s in this step
Decides(s) ==
    /\ req[s].kind = "http"
    /\ req[s].statsRead
    /\ req[s].pc = "serveAd"
    /\ req'[s].pc # "serveAd"

\* C3: the ad-due decision taken for a request is true iff
\* tasks_today - last_ad_task_count >= tasksPerAd, ads_today < maxAdsPerDay and
\* tasksPerAd > 0, on the counters of the identity record the gate read.
C3_DueIffPolicy ==
    [][\A s \in Slots :
          Decides(s) =>
             (req'[s].due <=> PolicyDue(req[s].tier, req[s].stats))]_vars

\* C4: for a tier with tasksPerAd = k > 0 and an identity below maxAdsPerDay,
\* a request that follows k accepted requests since the last ad (or since the
\* start of the day) finds an ad due, and one that follows fewer does not.
C4_DueEveryKUnits ==
    [][\A s \in Slots :
          LET r == req[s]
              k == adFrequency[r.tier].tasksPerAd
          IN (/\ Decides(s)
              /\ r.user \notin overlapped
              /\ k > 0
              /\ users[r.user].ads_today < adFrequency[r.tier].maxAdsPerDay)
             => (req'[s].due <=> r.unitsBefore >= k)]_vars

\* the counters a userStats object may hold
StatsValues ==
    [{"tasksCount", "lastAdTaskCount", "adsToday"} -> 0..(MaxTasksToday + 1)]

----------------------------------------------------------------------------
(* Campaign selection *)

\* campaign c may be shown to userTier at time t
Eligible(c, userTier, t) ==
    /\ campaigns[c].status = "active"
    /\ campaigns[c].start_date <= t
    /\ (campaigns[c].end_date = NoEndDate \/ campaigns[c].end_date >= t)
    /\ userTier \in campaigns[c].target_audience
    /\ campaigns[c].revenue < campaigns[c].budget

C7_FallbackWhenNoneEligible ==
    \A s \in Slots :
        (/\ req[s].due
         /\ req[s].eligible = {}
         /\ req[s].pc \notin {"idle", "getUserStats", "serveAd"})
        => /\ req[s].ad = getFallbackAd
           /\ req[s].pc \in {"recordImpression", "updateUserAdStats", "done"}
           /\ req[s].pc = "done" => req[s].adRequired

\* a due ad was answered with the fallback: rows were returned, none of which
\* passed the filter
C7_Witness ==
    \E s \in Slots :
        /\ req[s].pc = "done"
        /\ req[s].due
        /\ req[s].eligible = {}
        /\ req[s].adRequired
        /\ req[s].ad.id = FallbackId
        /\ req[s].tier = "free"
        /\ faultsLeft = 1

\* the context of a request of userTier: no country, no behaviour signals
ContextOf(userTier) ==
    [userTier |-> userTier, country |-> "default",
     userBehavior |-> [adCompletionRate |-> "mid", longSession |-> FALSE,
                       highTaskCompletion |-> FALSE]]

\* the CPM of campaign c as the optimizer adjusts it for userTier
EffectiveCPM(c, userTier) ==
    calculateOptimalCPM(<<campaigns[c].cpm, 1>>, ContextOf(userTier), hour, weekday)

\* C8: when some campaign is eligible, selectAd returns the campaign of
\* maximum effective CPM and, among those of equal effective CPM, the one of
\* lowest id, in whatever order the catalog returned the rows.
C8_MaxCpmLowestId ==
    [][\A s \in Slots :
          (/\ req[s].pc = "serveAd"
           /\ req'[s].pc = "recordImpression"
           /\ req'[s].eligible # {})
          => LET best == {c \in req'[s].eligible :
                            \A d \in req'[s].eligible :
                                EffectiveCPM(d, req[s].tier) <= EffectiveCPM(c, req[s].tier)}
             IN /\ req'[s].ad.id \in best
                /\ \A c \in best : req'[s].ad.id <= c]_vars

----------------------------------------------------------------------------
(* The CPM optimizer *)

\* C9: for every base CPM >= 0 and every context, the value calculateOptimalCPM
\* returns, after its rounding to 2 decimal places, is at least half the base
\* CPM.  (value / 100 >= baseCPM / 2, the value being in cents.)
C9_AtLeastHalfBase ==
    \A i \in 1..Len(cpmCalls) :
        2 * cpmCalls[i] * cpmArgs.baseCPM[2] >= 100 * cpmArgs.baseCPM[1]

\* C10: two calls of calculateOptimalCPM with the same baseCPM and context
\* return the same value, whatever the wall clock and the recorded
\* historicalData are at the two calls, and a call leaves the clock, the
\* factor tables' inputs and historicalData as they were.
C10_SameArgsSameValue ==
    /\ Len(cpmCalls) = 2 => cpmCalls[1] = cpmCalls[2]
    /\ historicalData \in 0..(MaxHistory + 1)

----------------------------------------------------------------------------
(* Impression accounting *)

\* the rows of ad_impressions of campaign c
RowsOf(c) == {i \in 1..Len(adImpressions) : adImpressions[i].campaign_id = c}

\* the requests whose INSERT is done and whose UPDATE of campaign c is to come
Pending(c) == {s \in Slots : req[s].pc = "creditCampaign" /\ req[s].ad.id = c}

RECURSIVE SumRevenue(_, _)
\* the sum of the revenue column over the first n rows of campaign c
SumRevenue(c, n) ==
    IF n = 0 THEN 0
    ELSE SumRevenue(c, n - 1) +
         (IF adImpressions[n].campaign_id = c THEN adImpressions[n].revenue ELSE 0)

\* C11: as long as no persistence call has failed, the recordImpression calls
\* against a campaign, concurrent or not, leave one row each and a campaign
\* whose impressions and revenue count every call whose UPDATE is done: no
\* increment is lost.
C11_NoIncrementLost ==
    faultsLeft = 1 =>
        \A c \in CampaignIds :
            /\ campaigns[c].impressions + Cardinality(Pending(c))
                  = Cardinality(RowsOf(c))
            /\ campaigns[c].revenue + Cardinality(Pending(c)) * RevenueOf(campaigns[c])
                  = SumRevenue(c, Len(adImpressions))

\* two calls against the same campaign were in flight together, both past
\* their UPDATE, and the campaign counts both
C11_Witness ==
    /\ faultsLeft = 1
    /\ \E c \in CampaignIds :
          /\ \A s \in Slots : req[s].pc = "updateUserAdStats" /\ req[s].ad.id = c
          /\ campaigns[c].impressions = 2
          /\ campaigns[c].revenue = 2 * RevenueOf(campaigns[c])

\* the rows of ad_impressions of user u
RowsOfUser(u) == {i \in 1..Len(adImpressions) : adImpressions[i].user_id = u}

\* no request is between the selection of its ad and its answer
NoneRecording ==
    \A s \in Slots :
        req[s].pc \notin {"recordImpression", "creditCampaign", "updateUserAdStats"}

\* C12: recording an impression takes effect as one unit, also when a
\* persistence call fails between its steps: whenever no recording is under
\* way, every campaign has been credited once per row of ad_impressions that
\* names it, and every user's all-time ad counter counts the rows of the user.
C12_RecordedAsOneUnit ==
    NoneRecording =>
        /\ \A c \in CampaignIds :
              campaigns[c].impressions = Cardinality(RowsOf(c))
        /\ \A u \in Users :
              users[u].total_ads = Cardinality(RowsOfUser(u))

\* the rows of ad_impressions written for request id
RowsOfRequest(id) == {i \in 1..Len(adImpressions) : adImpressions[i].request = id}

\* C13: a request answered with an ad, the fallback included, has exactly one
\* row of ad_impressions, and the tracking id of the answer is the id of that
\* row.
C13_OneRowPerServedAd ==
    \A s \in Slots :
        (req[s].pc = "done" /\ req[s].adRequired) =>
            /\ Cardinality(RowsOfRequest(req[s].id)) = 1
            /\ req[s].tracked

----------------------------------------------------------------------------
(* Completion *)

\* C14: when every completion report so far came from the owner of its
\* impression, every reported impression is marked completed and every
\* campaign's completions count each reported impression once, however often
\* the report was repeated.
C14_CompletionOnce ==
    strayReports = 0 =>
        /\ \A i \in reported : adImpressions[i].completed
        /\ \A c \in CampaignIds :
              campaigns[c].completions
                 = Cardinality({i \in reported : adImpressions[i].campaign_id = c})

\* C15: a completion report whose token is unknown or belongs to another
\* identity is answered negatively and changes no row, no campaign and no
\* user.
C15_StrayReportRejected ==
    [][strayReports' = strayReports + 1 =>
          /\ reportResult' = "negative"
          /\ UNCHANGED <<adImpressions, campaigns, users>>]_vars

----------------------------------------------------------------------------
(* Persistence failures *)

\* C16: a request whose read of today's task count failed is denied: it is
\* not put on the queue and is not answered as accepted.
C16_FailClosedOnCountError ==
    \A s \in Slots :
        req[s].countFailed =>
            /\ req[s].pc # "recordTaskUsage"
            /\ req[s].pc = "done" => ~req[s].allowed

----------------------------------------------------------------------------
(* Queue positions *)

\* C18: of two processTask calls of one user, the second started before the
\* first was answered, both accepted, the first is answered a smaller
\* position than the second, whichever of the two is answered first.
C18_PositionsInCallOrder ==
    \A s \in Slots :
        LET r == req[s]
            la == lastAnswer[r.user]
        IN (r.pc = "done" /\ r.kind = "task" /\ r.allowed /\ la.id # 0) =>
              /\ r.during = la.id => la.position < r.position
              /\ la.during = r.id => r.position < la.position

----------------------------------------------------------------------------
(* Order of the quota check and the ad path *)

----------------------------------------------------------------------------
(* The ad counters of an identity *)

\* C20: the step at which serveAd commits to answering adRequired: true
\* increments the user's ads_today and total_ads by exactly 1 and sets
\* last_ad_task_count to the user's tasks_today.
C20_CountersPerServedAd ==
    [][\A s \in Slots :
          (req[s].pc = "updateUserAdStats" /\ ~req[s].adRequired /\ req'[s].adRequired)
          => LET u == req[s].user
             IN /\ users'[u].ads_today = users[u].ads_today + 1
                /\ users'[u].total_ads = users[u].total_ads + 1
                /\ users'[u].last_ad_task_count = users[u].tasks_today]_vars

----------------------------------------------------------------------------
(* The daily reset *)

\* C23: once resetDailyCounts has run on a day, nothing lowers a user's
\* tasks_today or ads_today for the rest of that day: a later run of the
\* reset on the same day, between or during requests, zeroes no count accrued
\* since the first run and changes no counter.
C23_ResetOncePerDay ==
    [][lastReset.day = now =>
          \A u \in Users :
              /\ users'[u].tasks_today >= users[u].tasks_today
              /\ users'[u].ads_today >= users[u].ads_today]_vars

\* the reset has run twice on a day after the first, and the user holds
\* counts accrued on that day while a request of the user is in flight
C23_Witness ==
    /\ now > 0
    /\ lastReset = [day |-> now, runs |-> 2]
    /\ users["u1"].ads_today > 0
    /\ users["u1"].tasks_today > 0
    /\ users["u1"].ads_today = todayCounts["u1"].ads
    /\ \E s \in Slots : req[s].pc = "updateUserAdStats"

\* C24: after resetDailyCounts has run on a day, every user's tasks_today and
\* ads_today count only increments made on that day.
C24_OnlyTodaysCountsAfterReset ==
    lastReset.day = now =>
        \A u \in Users :
            /\ users[u].tasks_today <= todayCounts[u].tasks
            /\ users[u].ads_today <= todayCounts[u].ads

\* C28: for every user last_ad_task_count is at most tasks_today, also after
\* the reset has zeroed tasks_today.
C28_LastAdCountAtMostTasks ==
    \A u \in Users : users[u].last_ad_task_count <= users[u].tasks_today

----------------------------------------------------------------------------
(* The daily cap of ads *)

\* C21: the ads_today of a user never exceeds the maxAdsPerDay of the tier
\* the user's requests are made with, however the requests interleave.
C21_AdsTodayWithinCap ==
    \A s \in Slots :
        (req[s].pc # "idle" /\ req[s].kind = "api") =>
            users[req[s].user].ads_today <= adFrequency[req[s].tier].maxAdsPerDay

----------------------------------------------------------------------------
(* Campaign budgets *)

\* C22: in every state the revenue of every campaign is below its budget plus
\* the revenue of one impression (cpm / 1000).
C22_OvershootAtMostOne ==
    \A c \in CampaignIds :
        campaigns[c].revenue < campaigns[c].budget + RevenueOf(campaigns[c])

----------------------------------------------------------------------------
(* The daily consumption counter *)

\* C25: whenever a processTask call has been answered, the tasks_today of its
\* user, the counter the ad-frequency check reads, equals the number of the
\* user's calls accepted that day.
C25_TasksTodayCountsAccepted ==
    \A s \in Slots :
        req[s].pc = "done" =>
            users[req[s].user].tasks_today
               = accepted[req[s].user]["text"] + accepted[req[s].user]["image"]

----------------------------------------------------------------------------
(* Task types the limits do not list *)

\* C26: a request whose task type has no entry in the limits of its tier gets
\* no quota decision: it is neither put on the queue nor answered, as
\* accepted or as 'Daily ... task limit reached'.
C26_UnlistedTypeNotDecided ==
    \A s \in Slots :
        (req[s].pc # "idle" /\ ~HasLimit(req[s].tier, req[s].type)) =>
            req[s].pc \notin {"recordTaskUsage", "done"}

----------------------------------------------------------------------------
(* The background processor *)

\* C27: the processor takes the tasks off the queue in the order they were
\* put on it, and every task it has taken ends with one row of tasks stored
\* for it: no task is lost.
C27_DequeuedInOrderAndStored ==
    [][/\ \A t \in inflight' \ inflight :
             /\ taskQueue # <<>>
             /\ t = Head(taskQueue)
             /\ taskQueue' = Tail(taskQueue)
       /\ \A t \in inflight \ inflight' :
             tasksTable'[t.user][t.type] = tasksTable[t.user][t.type] + 1]_vars

----------------------------------------------------------------------------
(* The optimized ad frequency *)

\* C29: for the enterprise tier, whose tasksPerAd is 0, optimizeAdServing
\* returns tasksPerAd = 0 and maxAdsPerDay = 0 whatever the userBehavior.
C29_EnterpriseStaysAdFree ==
    (optArgs.userTier = "enterprise" /\ optResult # NoFrequency) =>
        (optResult.tasksPerAd = 0 /\ optResult.maxAdsPerDay = 0)

----------------------------------------------------------------------------
(* The custom rate limit *)

\* C30: within one window at most maxRequests calls of checkCustomRateLimit
\* for a key are answered allowed: true, and when no call is in flight the
\* counter stored under the key is the number of calls allowed.
C30_AtMostMaxAllowed ==
    /\ rlAllowed <= RlMaxRequests
    /\ (\A c \in RlCallers : rlCallers[c].pc = "idle") =>
          rlAllowed = (IF rlStore = NoKey THEN 0 ELSE rlStore)

====
